---- MODULE Spec2Model ----
(***************************************************************************)
(* Model of src/ts.py: the chat commands getai, aicook, aiseller,          *)
(* transcribe and process, and the shared pipeline ai_process_handler      *)
(* (classification, download, materialisation with upload-and-poll,        *)
(* bounded retry of the inference call, chunked delivery, cleanup).        *)
(*                                                                         *)
(* Every request is one coroutine on a single asyncio event loop.  A       *)
(* request's pc names the call it is suspended in (an await) or blocked in *)
(* (a synchronous remote call, which holds the only thread).  One action   *)
(* runs the coroutine from one such point to the next.                     *)
(***************************************************************************)
EXTENDS Integers, Sequences, FiniteSets, TLC

VARIABLES
    req,     \* per request: the coroutine's position, inputs, locals and effects
    files    \* the paths that exist on disk

vars == <<req, files>>

----------------------------------------------------------------------------
(* Bounds of the model *)

MaxKinds == 2      \* attachment attributes one referenced message may carry
MaxArgLen == 2     \* longest trailing argument of a command
MaxChunks == 2     \* answers up to about MaxChunks * ChunkSize characters
MaxPolls == 2      \* the 5-second sleeps are counted up to this number

(* Program constants *)

MaxAttempts == 3   \* range(3)
ChunkSize == 4000  \* len(result_text) > 4000, result_text[i:i+4000]

Requests == {"a", "b"}
Paths == {"p1", "p2"}
NoPath == "None"

Commands == {"getai", "aicook", "aiseller", "transcribe", "process"}

\* The attachment attributes of a pyrogram message the code reads, and
\* "sticker" for any attachment the code never reads.
Kinds == {"photo", "audio", "voice", "video", "video_note", "document", "sticker"}

NoReply == [exists |-> FALSE, attrs |-> {}]
Replies == {NoReply} \cup
           {[exists |-> TRUE, attrs |-> s] :
               s \in {t \in SUBSET Kinds : Cardinality(t) <= MaxKinds}}

Min(x, y) == IF x < y THEN x ELSE y

----------------------------------------------------------------------------
(* The command bindings *)

\* expect_type each command passes ("None" when it passes none)
ExpectType(c) ==
    CASE c \in {"getai", "aicook", "aiseller"} -> "image"
      [] c = "transcribe" -> "audio"
      [] OTHER -> "None"

\* show_prompt each command passes
ShowPrompt(c, n) ==
    IF c \in {"getai", "transcribe", "process"} THEN n > 0 ELSE FALSE

\* status_msg each command passes
StatusMsg(c) ==
    CASE c = "getai" -> "Scanning..."
      [] c = "aicook" -> "Cooking..."
      [] c = "aiseller" -> "Generating description..."
      [] c = "transcribe" -> "Transcribing..."
      [] OTHER -> "Processing..."

\* len(prompt): the argument, the aiseller template around it, or the default
PromptLen(c, n) ==
    CASE c = "getai" -> IF n > 0 THEN n ELSE 65
      [] c = "aicook" -> 68
      [] c = "aiseller" -> 67 + n
      [] c = "transcribe" -> IF n > 0 THEN n ELSE 49
      [] OTHER -> IF n > 0 THEN n ELSE 54

----------------------------------------------------------------------------
(* _valid_file *)

\* mutant of valid_file: video_note is missing from the last test
valid_file_NoVideoNote(rep, file_type) ==
    CASE file_type = "image" -> "photo" \in rep.attrs
      [] file_type \in {"audio", "video"} ->
            rep.attrs \cap {"audio", "voice", "video", "video_note"} # {}
      [] OTHER ->
            rep.attrs \cap {"photo", "audio", "voice", "video", "document"} # {}

\* mutant of valid_file: "audio" and "video" each accept their own kinds only
valid_file_Strict(rep, file_type) ==
    CASE file_type = "image" -> "photo" \in rep.attrs
      [] file_type = "audio" -> rep.attrs \cap {"audio", "voice"} # {}
      [] file_type = "video" -> rep.attrs \cap {"video", "video_note"} # {}
      [] OTHER ->
            rep.attrs \cap {"photo", "audio", "voice", "video", "video_note",
                            "document"} # {}

valid_file(rep, file_type) ==
    CASE file_type = "image" -> "photo" \in rep.attrs
      [] file_type \in {"audio", "video"} ->
            rep.attrs \cap {"audio", "voice", "video", "video_note"} # {}
      [] OTHER ->
            rep.attrs \cap {"photo", "audio", "voice", "video", "video_note",
                            "document"} # {}

\* mutant of TypeText: the expected type is not named
TypeText_Generic(expect_type) == "supported"

\* type_text of the invalid-file message
TypeText(expect_type) == IF expect_type # "None" THEN expect_type ELSE "supported"

----------------------------------------------------------------------------
(* prepare_input_data: the rule that applies, first match wins *)

\* mutant of Strategy: audio and voice get the list in the order of the others
Strategy_AudioPromptFirst(rep, pdf) ==
    CASE "photo" \in rep.attrs ->
            [rule |-> "image", as |-> "None", data |-> <<"prompt", "image">>]
      [] rep.attrs \cap {"video", "video_note"} # {} ->
            [rule |-> "upload", as |-> "video", data |-> <<"prompt", "handle">>]
      [] rep.attrs \cap {"audio", "voice"} # {} ->
            [rule |-> "upload", as |-> "audio", data |-> <<"prompt", "handle">>]
      [] "document" \in rep.attrs /\ pdf ->
            [rule |-> "upload", as |-> "PDF", data |-> <<"prompt", "handle">>]
      [] "document" \in rep.attrs ->
            [rule |-> "upload", as |-> "document", data |-> <<"handle", "prompt">>]
      [] OTHER ->
            [rule |-> "unsupported", as |-> "None", data |-> <<>>]

\* mutant of Strategy: the video rule does not look at the video note
Strategy_NoVideoNote(rep, pdf) ==
    CASE "photo" \in rep.attrs ->
            [rule |-> "image", as |-> "None", data |-> <<"prompt", "image">>]
      [] "video" \in rep.attrs ->
            [rule |-> "upload", as |-> "video", data |-> <<"prompt", "handle">>]
      [] rep.attrs \cap {"audio", "voice"} # {} ->
            [rule |-> "upload", as |-> "audio", data |-> <<"handle", "prompt">>]
      [] "document" \in rep.attrs /\ pdf ->
            [rule |-> "upload", as |-> "PDF", data |-> <<"prompt", "handle">>]
      [] "document" \in rep.attrs ->
            [rule |-> "upload", as |-> "document", data |-> <<"handle", "prompt">>]
      [] OTHER ->
            [rule |-> "unsupported", as |-> "None", data |-> <<>>]

Strategy(rep, pdf) ==
    CASE "photo" \in rep.attrs ->
            [rule |-> "image", as |-> "None", data |-> <<"prompt", "image">>]
      [] rep.attrs \cap {"video", "video_note"} # {} ->
            [rule |-> "upload", as |-> "video", data |-> <<"prompt", "handle">>]
      [] rep.attrs \cap {"audio", "voice"} # {} ->
            [rule |-> "upload", as |-> "audio", data |-> <<"handle", "prompt">>]
      [] "document" \in rep.attrs /\ pdf ->
            [rule |-> "upload", as |-> "PDF", data |-> <<"prompt", "handle">>]
      [] "document" \in rep.attrs ->
            [rule |-> "upload", as |-> "document", data |-> <<"handle", "prompt">>]
      [] OTHER ->
            [rule |-> "unsupported", as |-> "None", data |-> <<>>]

\* str.capitalize() on the file types _upload_file is given
Capitalize(s) ==
    CASE s = "video" -> "Video"
      [] s = "audio" -> "Audio"
      [] s = "PDF" -> "Pdf"
      [] s = "document" -> "Document"
      [] OTHER -> s

----------------------------------------------------------------------------
(* Exceptions.  A message is the set of the substrings of str(e).lower()   *)
(* the retry loop looks for.                                                *)

Tokens == {"mimetype parameter", "not supported", "403", "429", "permission", "quota"}

ErrMsgs == { {"mimetype parameter", "not supported"},
             {"mimetype parameter", "not supported", "quota"},
             {"not supported"},
             {"429", "quota"},
             {"403", "permission"},
             {} }

NoErr == [cls |-> "None", text |-> "", tokens |-> {}, attempt |-> 0]

\* an exception of the inference service, raised by the n-th call
APIError(m, n) == [cls |-> "APIError", text |-> "", tokens |-> m, attempt |-> n]

ValueError(t) == [cls |-> "ValueError", text |-> t, tokens |-> {}, attempt |-> 0]

\* what Image.open / img.verify raise on a file that is no intact image
ImageError == [cls |-> "ImageError", text |-> "", tokens |-> {}, attempt |-> 0]

\* what reading the unbound local e raises
UnboundLocalError == [cls |-> "UnboundLocalError", text |-> "e", tokens |-> {}, attempt |-> 0]

IsMimeUnsupported(e) == {"mimetype parameter", "not supported"} \subseteq e.tokens

IsTransient(e) == e.tokens \cap {"403", "429", "permission", "quota"} # {}

----------------------------------------------------------------------------
(* What the command message shows *)

Shown(k, w, e) == [kind |-> k, what |-> w, err |-> e, len |-> 0]

Original == Shown("command", "", NoErr)
Usage(w) == Shown("usage", w, NoErr)
Invalid(w) == Shown("invalid", w, NoErr)
Status(w) == Shown("status", w, NoErr)
Text(w) == Shown("text", w, NoErr)
ErrorText(e) == Shown("error", "", e)
Answer(n) == [kind |-> "answer", what |-> "", err |-> NoErr, len |-> n]
Deleted == Shown("deleted", "", NoErr)

\* len(result_text): "Prompt: " + prompt + "\n" when shown, then "Answer: "
\* and response.text, or 'No content generated.' when that is empty
ResultLen(show_prompt, prompt_len, text_len) ==
    (IF show_prompt THEN 8 + prompt_len + 1 ELSE 0)
    + 8 + (IF text_len > 0 THEN text_len ELSE 21)

\* mutant of Chunk: the slice is not cut at the end of the text
Chunk_Unclamped(i, n) == <<i, i + ChunkSize>>

\* result_text[i:i+4000] as the pair of its first index and the one after its last
Chunk(i, n) == <<i, Min(i + ChunkSize, n)>>

\* the lengths of response.text the model draws from
TextLens == {0, 492, 2 * ChunkSize + 492} \cup
            {k * ChunkSize - 8 + d : k \in 1..MaxChunks, d \in {0, 1}}

----------------------------------------------------------------------------
(* The state of one request.                                               *)
(*   pc            where the coroutine is suspended or blocked             *)
(*   cmd, arg_len  the command received, the length of its argument (0:    *)
(*                 len(message.command) = 1)                               *)
(*   reply         message.reply_to_message                                *)
(*   env           how much of what the services may answer is explored    *)
(*                 for this request: "wide" or "narrow"                    *)
(*   file_path, is_pdf   what reply.download() returned                    *)
(*   msg, replies  what the command message shows, the replies sent        *)
(*   edits         calls of message.edit_text                              *)
(*   candidates    response.candidates of the last response: "None" before *)
(*                 any, "empty" or "some"                                  *)
(*   result_len    len(result_text)                                        *)
(*   input_data, upload_as, upload_state   locals of the materialisation   *)
(*   image         the downloaded photo: "None" before it is opened, then  *)
(*                 "intact" or "corrupt"                                   *)
(*   classified, downloads, uploads, infer_calls, sleeps   calls made of   *)
(*                 _valid_file, reply.download, genai.upload_file,         *)
(*                 model.generate_content, asyncio.sleep(2)                *)
(*   polls         calls of asyncio.sleep(5), counted up to MaxPolls       *)
(*   refetches     calls of genai.get_file, counted up to MaxPolls         *)
(*   transients    transient failures the retry loop has seen              *)
(*   last_err      the last exception generate_content raised              *)
(*   raised        the exception that reached the outer handlers           *)
(*   route         how the handler ended                                   *)
(*   rm_failed     os.remove raised in the finally block                   *)
(*   file_type, verdict   the argument and the truth value of the result   *)
(*                 of a call of _valid_file on reply by itself             *)
(***************************************************************************)

NewRequest(c, n, rep) ==
    [pc |-> "start", cmd |-> c, arg_len |-> n, reply |-> rep, env |-> "wide",
     file_path |-> NoPath, is_pdf |-> FALSE,
     msg |-> Original, replies |-> <<>>, edits |-> 0, result_len |-> 0,
     candidates |-> "None",
     input_data |-> <<>>, upload_as |-> "None", upload_state |-> "None",
     image |-> "None",
     classified |-> 0, downloads |-> 0, uploads |-> 0, polls |-> 0,
     refetches |-> 0,
     infer_calls |-> 0, sleeps |-> 0, transients |-> 0,
     last_err |-> NoErr, raised |-> NoErr, route |-> "None", rm_failed |-> FALSE,
     file_type |-> "None", verdict |-> "None"]

\* a request that is never received
Absent == [NewRequest("process", 0, NoReply) EXCEPT !.pc = "off"]

\* what the services may answer to request q: every error message or one
\* transient one, every text length or one short and one long text, a path
\* with or without the .pdf suffix
ErrMsgsOf(q) == IF q.env = "wide" THEN ErrMsgs ELSE {{"429", "quota"}}
TextLensOf(q) == IF q.env = "wide" THEN TextLens ELSE {492, ChunkSize}
SuffixesOf(q) == IF q.env = "wide" THEN BOOLEAN ELSE {FALSE}

\* The paths reply.download() may return to request r.  The handler passes
\* no file name, so the chat client names the file: after the attachment's
\* own file name when it has one (audio, document, video), which two
\* downloads of one message share, and with a fresh name otherwise.
NamedMedia == {"audio", "document", "video"}
OwnPath(r) == IF r = "a" THEN "gen_a" ELSE "gen_b"
PathsOf(r, q) ==
    IF q.reply.attrs \cap NamedMedia # {} THEN Paths ELSE {OwnPath(r)}

\* the calls that do not return control to the event loop while they wait
SyncCall == {"upload", "get_file", "generate"}

\* the event loop can run request r: no other coroutine holds the thread
Runnable(r) == \A q \in Requests \ {r} : req[q].pc \notin SyncCall

----------------------------------------------------------------------------
(* The finally block: os.remove(file_path) when the path exists, and an    *)
(* exception of os.remove swallowed.  rec is the request as it leaves the  *)
(* try statement, fs the disk at that point.                               *)

\* mutant of Finally: the file is left where it is
Finally_NoRemove(r, rec, fs) ==
    /\ files' = fs
    /\ req' = [req EXCEPT ![r] = rec]

Finally(r, rec, fs) ==
    IF rec.file_path \in fs
    THEN \/ /\ files' = fs \ {rec.file_path}
            /\ req' = [req EXCEPT ![r] = rec]
         \/ /\ files' = fs
            /\ req' = [req EXCEPT ![r] = [rec EXCEPT !.rm_failed = TRUE]]
    ELSE /\ files' = fs
         /\ req' = [req EXCEPT ![r] = rec]

\* a return inside the try statement, after editing the message to m
Return(rec, m) ==
    [rec EXCEPT !.pc = "done", !.msg = m, !.edits = @ + 1, !.route = "return"]

\* the handlers of the try statement: except ValueError shows str(e), except
\* Exception shows "Error: " and format_exc(e)
Caught(rec, e) ==
    IF e.cls = "ValueError"
    THEN [rec EXCEPT !.pc = "done", !.raised = e, !.msg = Text(e.text),
                     !.edits = @ + 1, !.route = "except ValueError"]
    ELSE [rec EXCEPT !.pc = "done", !.raised = e, !.msg = ErrorText(e),
                     !.edits = @ + 1, !.route = "except Exception"]

\* the message of the ValueError _upload_file raises
FailedToProcess(file_type) ==
    CASE Capitalize(file_type) = "Video" -> "Video failed to process"
      [] Capitalize(file_type) = "Audio" -> "Audio failed to process"
      [] Capitalize(file_type) = "Pdf" -> "Pdf failed to process"
      [] Capitalize(file_type) = "Document" -> "Document failed to process"
      [] OTHER -> "failed to process"

----------------------------------------------------------------------------
(* The command handlers up to the first await inside ai_process_handler:   *)
(* aiseller without an argument shows its usage; otherwise the head of     *)
(* ai_process_handler: no reply, invalid file, or the status text and the  *)
(* download.                                                               *)

\* mutant of UsageOnly: aiseller goes on without its argument
UsageOnly_Never(c, n) == FALSE

\* the command stops at its own usage text: aiseller without an argument
UsageOnly(c, n) == c = "aiseller" /\ n = 0

Invoke(r) ==
    LET q == req[r]
        expect_type == ExpectType(q.cmd)
    IN  /\ q.pc = "start"
        /\ Runnable(r)
        /\ files' = files
        /\ req' = [req EXCEPT ![r] =
              IF UsageOnly(q.cmd, q.arg_len)
              THEN [q EXCEPT !.pc = "done", !.msg = Usage("aiseller"),
                             !.edits = @ + 1, !.route = "usage"]
              ELSE IF ~q.reply.exists
              THEN [q EXCEPT !.pc = "done", !.route = "usage", !.edits = @ + 1,
                             !.msg = Usage(IF expect_type # "None"
                                           THEN expect_type ELSE "file")]
              ELSE IF ~valid_file(q.reply, expect_type)
              THEN [q EXCEPT !.pc = "done", !.route = "invalid",
                             !.classified = @ + 1, !.edits = @ + 1,
                             !.msg = Invalid(TypeText(expect_type))]
              ELSE [q EXCEPT !.pc = "download", !.classified = @ + 1,
                             !.msg = Status(StatusMsg(q.cmd)), !.edits = @ + 1,
                             !.downloads = @ + 1]]

----------------------------------------------------------------------------
(* _upload_file after uploaded_file was (re)assigned with state s *)

\* mutant of AfterState: the FAILED state is not looked at
AfterState_FailedIgnored(r, rec, s) ==
    LET u == [rec EXCEPT !.upload_state = s]
    IN  IF s = "PROCESSING"
        THEN /\ req' = [req EXCEPT ![r] =
                           [u EXCEPT !.pc = "poll_sleep",
                                     !.polls = Min(@ + 1, MaxPolls)]]
             /\ files' = files
        ELSE /\ req' = [req EXCEPT ![r] =
                           [u EXCEPT !.pc = "generate",
                                     !.input_data = Strategy(u.reply, u.is_pdf).data,
                                     !.infer_calls = @ + 1]]
             /\ files' = files

AfterState(r, rec, s) ==
    LET u == [rec EXCEPT !.upload_state = s]
    IN  CASE s = "PROCESSING" ->
               /\ req' = [req EXCEPT ![r] =
                             [u EXCEPT !.pc = "poll_sleep",
                                       !.polls = Min(@ + 1, MaxPolls)]]
               /\ files' = files
          [] s = "FAILED" ->
               Finally(r, Caught(u, ValueError(FailedToProcess(u.upload_as))), files)
          [] OTHER ->
               /\ req' = [req EXCEPT ![r] =
                             [u EXCEPT !.pc = "generate",
                                       !.input_data = Strategy(u.reply, u.is_pdf).data,
                                       !.infer_calls = @ + 1]]
               /\ files' = files

\* the states a file of the inference service can be in
FileStates == {"PROCESSING", "ACTIVE", "FAILED"}

----------------------------------------------------------------------------
(* reply.download() returns: the check of file_path, then                  *)
(* prepare_input_data up to its first remote call                          *)

\* mutant of Verify: the file is not checked
Verify_Skipped(image) == TRUE

\* Image.open and img.verify() go through on an intact image and raise on
\* any other file
Verify(image) == image = "intact"

Prepare(r, rec, fs) ==
    LET st == Strategy(rec.reply, rec.is_pdf)
    IN  CASE st.rule = "image" ->
               \E image \in {"intact", "corrupt"} :
                   LET v == [rec EXCEPT !.image = image]
                   IN  IF Verify(image)
                       THEN /\ req' = [req EXCEPT ![r] =
                                         [v EXCEPT !.pc = "generate",
                                                   !.input_data = st.data,
                                                   !.infer_calls = @ + 1]]
                            /\ files' = fs
                       ELSE Finally(r, Caught(v, ImageError), fs)
          [] st.rule = "upload" ->
               /\ req' = [req EXCEPT ![r] =
                             [rec EXCEPT !.pc = "upload", !.upload_as = st.as,
                                         !.uploads = @ + 1]]
               /\ files' = fs
          [] OTHER ->
               Finally(r, Caught(rec, ValueError("Unsupported file type")), fs)

DownloadFailed(rec, p) ==
    [rec EXCEPT !.pc = "done", !.file_path = p, !.route = "download failed",
                !.edits = @ + 1,
                !.msg = Text("Failed to process the file. Try again.")]

DownloadDone(r) ==
    LET q == req[r]
    IN  /\ q.pc = "download"
        /\ Runnable(r)
        /\ \/ /\ req' = [req EXCEPT ![r] = DownloadFailed(q, NoPath)]
              /\ files' = files
           \/ \E p \in PathsOf(r, q) \ files :
                 /\ req' = [req EXCEPT ![r] = DownloadFailed(q, p)]
                 /\ files' = files
           \/ \E p \in PathsOf(r, q), pdf \in SuffixesOf(q) :
                 Prepare(r, [q EXCEPT !.file_path = p, !.is_pdf = pdf],
                         files \cup {p})

\* genai.upload_file returns
UploadReturn(r) ==
    /\ req[r].pc = "upload"
    /\ \E s \in FileStates : AfterState(r, req[r], s)

\* asyncio.sleep(5) is over: genai.get_file is called
PollSleepDone(r) ==
    /\ req[r].pc = "poll_sleep"
    /\ Runnable(r)
    /\ req' = [req EXCEPT ![r].pc = "get_file",
                          ![r].refetches = Min(@ + 1, MaxPolls)]
    /\ files' = files

\* genai.get_file returns
GetFileReturn(r) ==
    /\ req[r].pc = "get_file"
    /\ \E s \in FileStates : AfterState(r, req[r], s)

----------------------------------------------------------------------------
(* The retry loop, for _ in range(3), around model.generate_content *)

\* mutant of OnError: the friendly return whatever type was expected
OnError_AlwaysFriendly(e, expect_type) ==
    IF IsMimeUnsupported(e)
    THEN "return"
    ELSE IF IsTransient(e) THEN "sleep" ELSE "raise"

\* mutant of OnError: every error that is no MIME error is retried
OnError_RetryAll(e, expect_type) ==
    IF IsMimeUnsupported(e)
    THEN IF expect_type = "None" THEN "return" ELSE "raise"
    ELSE "sleep"

\* what the except clause of the loop does with the exception e
OnError(e, expect_type) ==
    IF IsMimeUnsupported(e)
    THEN IF expect_type = "None" THEN "return" ELSE "raise"
    ELSE IF IsTransient(e) THEN "sleep" ELSE "raise"

\* the else clause of the loop, raise e: the name e was unbound when the
\* except clause that bound it ended, so reading it raises UnboundLocalError
LoopElse(last) == UnboundLocalError

\* after the loop: result_text of length n is sent in chunks, or replaces
\* the text of the command message
Deliver(r, rec, n) ==
    IF n > ChunkSize
    THEN /\ req' = [req EXCEPT ![r] = [rec EXCEPT !.pc = "reply", !.result_len = n]]
         /\ files' = files
    ELSE Finally(r, [rec EXCEPT !.pc = "done", !.result_len = n, !.edits = @ + 1,
                                !.msg = Answer(n), !.route = "answer"], files)

\* mutant of EmptyCandidates: the empty response is raised as an error
EmptyCandidates_Raised(rec) ==
    Caught([rec EXCEPT !.candidates = "empty"],
           ValueError("Could not generate response."))

\* a response without candidates: the message is edited and the handler returns
EmptyCandidates(rec) ==
    Return([rec EXCEPT !.candidates = "empty"], Text("Could not generate response."))

\* mutant of Backoff: the loop goes on without the sleep
Backoff_NoSleep(rec) ==
    [rec EXCEPT !.pc = "retry_sleep", !.transients = @ + 1]

\* mutant of Backoff: the failure of the last attempt is not slept on
Backoff_NoSleepOnLast(rec) ==
    IF rec.infer_calls < MaxAttempts
    THEN [rec EXCEPT !.pc = "retry_sleep", !.sleeps = @ + 1, !.transients = @ + 1]
    ELSE [rec EXCEPT !.pc = "retry_sleep", !.transients = @ + 1]

\* a transient failure: asyncio.sleep(2), then the loop goes on
Backoff(rec) ==
    [rec EXCEPT !.pc = "retry_sleep", !.sleeps = @ + 1, !.transients = @ + 1]

\* model.generate_content returns or raises
GenerateReturn(r) ==
    LET q == req[r]
        expect_type == ExpectType(q.cmd)
    IN  /\ q.pc = "generate"
        /\ \/ \E text_len \in TextLensOf(q) :
                 Deliver(r, [q EXCEPT !.candidates = "some"],
                         ResultLen(ShowPrompt(q.cmd, q.arg_len),
                                   PromptLen(q.cmd, q.arg_len), text_len))
           \/ Finally(r, EmptyCandidates(q), files)
           \/ \E m \in ErrMsgsOf(q) :
                 LET e == APIError(m, q.infer_calls)
                     u == [q EXCEPT !.last_err = e]
                 IN  CASE OnError(e, expect_type) = "return" ->
                            Finally(r, Return(u, Text("Invalid file type. Please try again.")),
                                    files)
                       [] OnError(e, expect_type) = "sleep" ->
                            /\ req' = [req EXCEPT ![r] = Backoff(u)]
                            /\ files' = files
                       [] OTHER ->
                            Finally(r, Caught(u, e), files)

\* asyncio.sleep(2) is over: the next iteration, or the else clause
RetrySleepDone(r) ==
    LET q == req[r]
    IN  /\ q.pc = "retry_sleep"
        /\ Runnable(r)
        /\ IF q.infer_calls < MaxAttempts
           THEN /\ req' = [req EXCEPT ![r] =
                              [q EXCEPT !.pc = "generate", !.infer_calls = @ + 1]]
                /\ files' = files
           ELSE Finally(r, Caught(q, LoopElse(q.last_err)), files)

\* message.reply_text sends the next chunk, result_text[i:i+4000]
SendChunk(r) ==
    LET q == req[r]
        i == Len(q.replies) * ChunkSize
    IN  /\ q.pc = "reply"
        /\ Runnable(r)
        /\ req' = [req EXCEPT ![r] =
              [q EXCEPT !.replies = Append(@, Chunk(i, q.result_len)),
                        !.pc = IF i + ChunkSize < q.result_len
                               THEN "reply" ELSE "delete"]]
        /\ files' = files

\* message.delete() after the last chunk, then the finally block
DeleteMsg(r) ==
    /\ req[r].pc = "delete"
    /\ Runnable(r)
    /\ Finally(r, [req[r] EXCEPT !.pc = "done", !.msg = Deleted,
                                 !.route = "answer"], files)

----------------------------------------------------------------------------
(* Specifications *)

Step(r) ==
    \/ Invoke(r)
    \/ DownloadDone(r)
    \/ UploadReturn(r)
    \/ PollSleepDone(r)
    \/ GetFileReturn(r)
    \/ GenerateReturn(r)
    \/ RetrySleepDone(r)
    \/ SendChunk(r)
    \/ DeleteMsg(r)

Next == \E r \in Requests : Step(r)

\* one request, with every command, argument and referenced message
Init ==
    /\ files = {}
    /\ \E c \in Commands, n \in 0..MaxArgLen, rep \in Replies :
          req = [r \in Requests |->
                    IF r = "a" THEN NewRequest(c, n, rep) ELSE Absent]

Spec == Init /\ [][Next]_vars

\* every coroutine that can run is run; every remote call returns
FairSpec == Spec /\ \A r \in Requests : WF_vars(Step(r))

\* two requests in flight at once
ConcInputs ==
    { [NewRequest("process", 0, [exists |-> TRUE, attrs |-> {"document"}])
          EXCEPT !.env = "narrow"],
      [NewRequest("getai", 0, [exists |-> TRUE, attrs |-> {"photo"}])
          EXCEPT !.env = "narrow"] }

ConcInit ==
    /\ files = {}
    /\ req \in [Requests -> ConcInputs]

ConcSpec == ConcInit /\ [][Next]_vars

----------------------------------------------------------------------------
(* _valid_file by itself, on every referenced message and every file_type  *)
(* its tests tell apart ("None" for the default)                           *)

FileTypes == {"image", "audio", "video", "None"}

Classify(r) ==
    LET q == req[r]
    IN  /\ q.pc = "classify"
        /\ req' = [req EXCEPT ![r] =
              [q EXCEPT !.pc = "classified",
                        !.verdict = IF valid_file(q.reply, q.file_type)
                                    THEN "valid" ELSE "invalid"]]
        /\ files' = files

ClassifyNext == \E r \in Requests : Classify(r)

ClassifyInit ==
    /\ files = {}
    /\ req \in [Requests ->
                  {[NewRequest("process", 0, rep) EXCEPT !.pc = "classify",
                                                         !.file_type = t] :
                      rep \in Replies, t \in FileTypes}]

ClassifySpec == ClassifyInit /\ [][ClassifyNext]_vars

----------------------------------------------------------------------------
(* Properties *)

\* the request is inside the try statement of ai_process_handler
InTry(q) ==
    q.pc \in {"upload", "poll_sleep", "get_file", "generate", "retry_sleep",
              "reply", "delete"}

\* reply.download() gave the request a local file
Downloaded(q) == q.file_path # NoPath /\ q.route # "download failed"

\* the handler of the request has ended
Done(q) == q.pc = "done"

(* C1, as claimed: once a handler whose download produced a file has ended, *)
(* by any path, that file is no longer on disk.                            *)
C1_TempFileGoneOnEveryExit ==
    [][\A r \in Requests :
          (~Done(req[r]) /\ Done(req'[r]) /\ Downloaded(req'[r]))
              => req'[r].file_path \notin files']_vars

(* C1, amended: when such a handler ends, by any path, the file is no      *)
(* longer on disk unless os.remove itself raised (which the finally block  *)
(* swallows); and every file on disk is the file of a request that is      *)
(* still inside the try statement or whose removal failed: at most one per *)
(* request.                                                                *)
C1_TempFileGoneUnlessRemoveFailed ==
    /\ [][\A r \in Requests :
            (~Done(req[r]) /\ Done(req'[r]) /\ Downloaded(req'[r]))
                => (req'[r].rm_failed \/ req'[r].file_path \notin files')]_vars
    /\ [](files \subseteq
            {req[r].file_path :
                r \in {x \in Requests : InTry(req[x]) \/ req[x].rm_failed}})

C1_Witness ==
    \E r \in Requests :
        /\ Done(req[r]) /\ Downloaded(req[r]) /\ ~req[r].rm_failed
        /\ req[r].route = "except Exception"
        /\ req[r].file_path \notin files

(* C2: when all 3 attempts fail with a transient error, there is no 4th    *)
(* attempt and the error that reaches the outer handlers is the error the  *)
(* third attempt raised.                                                   *)
C2_LastTransientErrorPropagated ==
    \A r \in Requests :
        (Done(req[r]) /\ req[r].transients = MaxAttempts)
            => /\ req[r].infer_calls = MaxAttempts
               /\ req[r].last_err.attempt = MaxAttempts
               /\ req[r].raised = req[r].last_err

(* C3: k transient failures (k in 0..2) and then a response with           *)
(* candidates: exactly k+1 inference calls, exactly k sleeps of 2 seconds, *)
(* and the answer of that response is what the chat gets.                  *)
C3_RetryThenSuccess ==
    \A r \in Requests :
        LET q == req[r]
        IN  q.candidates = "some" =>
              /\ q.transients \in 0..(MaxAttempts - 1)
              /\ q.infer_calls = q.transients + 1
              /\ q.sleeps = q.transients
              /\ q.raised = NoErr
              /\ IF Done(q)
                 THEN /\ q.route = "answer"
                      /\ \/ q.msg = Answer(q.result_len)
                         \/ q.msg = Deleted /\ q.replies # <<>>
                 ELSE q.pc \in {"reply", "delete"}

C3_Witness ==
    \E r \in Requests :
        /\ Done(req[r]) /\ req[r].candidates = "some"
        /\ req[r].transients = MaxAttempts - 1
        /\ req[r].infer_calls = MaxAttempts
        /\ req[r].msg = Answer(req[r].result_len)

(* C4: every request that has put the status text on the command message  *)
(* ends with that message changed: to an answer or a failure text, or      *)
(* deleted after the chunks were sent.  No execution leaves the status     *)
(* text there forever.                                                     *)
C4_StatusTextIsReplaced ==
    \A r \in Requests :
        (req[r].msg.kind = "status") ~> (req[r].msg.kind # "status")

\* the calls C5 names: the download, the three steps of the upload-and-poll
\* protocol, the inference call
RemoteWaits == {"download", "upload", "poll_sleep", "get_file", "generate"}

(* C5: while one request waits in the download, the upload submission, the *)
(* 5-second wait, the state re-fetch or the inference call, the handler of *)
(* every other unfinished request can take its next step.                  *)
C5_RemoteWaitsAreSuspensionPoints ==
    \A r \in Requests : \A q \in Requests \ {r} :
        (req[r].pc \in RemoteWaits /\ req[q].pc \notin {"done", "off"})
            => ENABLED Step(q)

\* _valid_file was called and did not reject: the handler went on
Accepted(q) == q.classified = 1 /\ q.route # "invalid"

\* _valid_file was called and rejected
Rejected(q) == q.classified = 1 /\ q.route = "invalid"

(* C6, as claimed: with no expected category the referenced message is     *)
(* accepted iff it carries one of photo, audio, voice, video, document.    *)
C6_AcceptsExactlyFiveKinds ==
    \A r \in Requests :
        (ExpectType(req[r].cmd) = "None" /\ req[r].classified = 1)
            => (Accepted(req[r]) <=>
                  req[r].reply.attrs \cap
                      {"photo", "audio", "voice", "video", "document"} # {})

(* C6, amended: with no expected category the referenced message is        *)
(* accepted iff it carries one of photo, audio, voice, video, video_note,  *)
(* document; a message with attachments of other kinds only is rejected.   *)
C6_AcceptsExactlySixKinds ==
    \A r \in Requests :
        (ExpectType(req[r].cmd) = "None" /\ req[r].classified = 1)
            => /\ Accepted(req[r]) <=>
                    req[r].reply.attrs \cap
                        {"photo", "audio", "voice", "video", "video_note",
                         "document"} # {}
               /\ Rejected(req[r]) <=>
                    req[r].reply.attrs \subseteq
                        Kinds \ {"photo", "audio", "voice", "video",
                                 "video_note", "document"}

C6_Witness ==
    \E r \in Requests :
        /\ ExpectType(req[r].cmd) = "None"
        /\ req[r].reply.attrs = {"video_note"}
        /\ Accepted(req[r])
        /\ req[r].msg.kind = "status"

(* C7: when the classifier rejects the referenced message, the command     *)
(* message is edited to the invalid-file text that names the expected      *)
(* category ("image", "audio", or "supported" when none), and the request  *)
(* has ended without a download, an upload or an inference call.           *)
C7_RejectionStopsThePipeline ==
    \A r \in Requests :
        LET q == req[r]
            expect_type == ExpectType(q.cmd)
        IN  (q.classified = 1 /\ ~valid_file(q.reply, expect_type)) =>
              /\ Done(q)
              /\ q.msg.kind = "invalid"
              /\ q.msg.what = (CASE expect_type = "image" -> "image"
                                 [] expect_type = "audio" -> "audio"
                                 [] OTHER -> "supported")
              /\ q.edits = 1
              /\ q.downloads = 0 /\ q.uploads = 0 /\ q.infer_calls = 0
              /\ q.file_path = NoPath

C7_Witness ==
    \E r \in Requests :
        /\ req[r].cmd = "getai"
        /\ req[r].reply.attrs = {"document"}
        /\ req[r].classified = 1
        /\ req[r].msg = Invalid("image")
        /\ Done(req[r])

(* C8: a response with an empty candidate list ends the request with the   *)
(* command message reading "Could not generate response.", with no further *)
(* inference call, whatever failed before, and through neither except      *)
(* clause: no exception reaches them and no "Error: ..." text is shown.    *)
C8_EmptyCandidatesReturn ==
    \A r \in Requests :
        LET q == req[r]
        IN  q.candidates = "empty" =>
              /\ Done(q)
              /\ q.msg = Text("Could not generate response.")
              /\ q.route = "return"
              /\ q.raised = NoErr
              /\ q.infer_calls = q.transients + 1
              /\ q.sleeps = q.transients

C8_Witness ==
    \E r \in Requests :
        /\ req[r].candidates = "empty"
        /\ req[r].transients = MaxAttempts - 1
        /\ req[r].infer_calls = MaxAttempts
        /\ req[r].msg = Text("Could not generate response.")

\* ceil(n / ChunkSize)
CeilChunks(n) == (n + ChunkSize - 1) \div ChunkSize

\* the chunks sent so far are consecutive slices of result_text from its
\* start, none empty, none longer than ChunkSize
ConsecutiveChunks(q) ==
    \A k \in 1..Len(q.replies) :
        /\ q.replies[k][1] = (IF k = 1 THEN 0 ELSE q.replies[k - 1][2])
        /\ q.replies[k][2] > q.replies[k][1]
        /\ q.replies[k][2] - q.replies[k][1] <= ChunkSize
        /\ q.replies[k][2] <= q.result_len

(* C9: an answer longer than 4000 characters is sent as ceil(L/4000)       *)
(* replies of at most 4000 characters, in order, that together are the     *)
(* answer, and the command message is deleted only after all of them,      *)
(* never edited; an answer of at most 4000 characters is sent in no reply  *)
(* and replaces the text of the command message in one edit.               *)
C9_ChunkedDelivery ==
    \A r \in Requests :
        LET q == req[r]
        IN  q.candidates = "some" =>
              /\ ConsecutiveChunks(q)
              /\ q.msg = Deleted =>
                    /\ Len(q.replies) = CeilChunks(q.result_len)
                    /\ q.replies[Len(q.replies)][2] = q.result_len
              /\ IF q.result_len > ChunkSize
                 THEN /\ q.edits = 1
                      /\ q.msg \in {Status(StatusMsg(q.cmd)), Deleted}
                      /\ Done(q) => q.msg = Deleted
                 ELSE /\ Done(q)
                      /\ q.replies = <<>>
                      /\ q.msg = Answer(q.result_len)
                      /\ q.edits = 2

C9_Witness ==
    \E r \in Requests :
        /\ Done(req[r])
        /\ req[r].result_len = 2 * ChunkSize + 500
        /\ req[r].replies =
              <<<<0, ChunkSize>>, <<ChunkSize, 2 * ChunkSize>>,
                <<2 * ChunkSize, 2 * ChunkSize + 500>>>>
        /\ req[r].msg = Deleted

(* C10: an inference error whose message says the MIME type is not         *)
(* supported ends the retry loop at once: no sleep, no further call.  The  *)
(* friendly "Invalid file type. Please try again." is shown iff no         *)
(* category was expected; otherwise the error goes to the outer handlers   *)
(* and is shown as a formatted error.                                      *)
C10_MimeUnsupported ==
    \A r \in Requests :
        LET q == req[r]
            e == q.last_err
        IN  (e # NoErr /\ IsMimeUnsupported(e)) =>
              /\ Done(q)
              /\ q.infer_calls = e.attempt
              /\ q.sleeps = e.attempt - 1
              /\ (ExpectType(q.cmd) = "None") <=>
                    (q.msg = Text("Invalid file type. Please try again."))
              /\ ExpectType(q.cmd) = "None" =>
                    q.route = "return" /\ q.raised = NoErr
              /\ ExpectType(q.cmd) # "None" =>
                    /\ q.raised = e
                    /\ q.route = "except Exception"
                    /\ q.msg = ErrorText(e)

C10_Witness ==
    \E r \in Requests :
        /\ req[r].cmd = "transcribe"
        /\ IsMimeUnsupported(req[r].last_err)
        /\ req[r].last_err.attempt = 2
        /\ req[r].msg = ErrorText(req[r].last_err)

(* C11: an inference error that is neither MIME-unsupported nor transient  *)
(* is re-raised on the attempt that raised it, with no sleep after it and  *)
(* no further inference call; and no request ever makes more than 3        *)
(* inference calls.                                                        *)
C11_OtherErrorsAreNotRetried ==
    \A r \in Requests :
        LET q == req[r]
            e == q.last_err
        IN  /\ q.infer_calls <= MaxAttempts
            /\ (e # NoErr /\ ~IsMimeUnsupported(e) /\ ~IsTransient(e)) =>
                  /\ Done(q)
                  /\ q.raised = e
                  /\ q.route = "except Exception"
                  /\ q.msg = ErrorText(e)
                  /\ q.infer_calls = e.attempt
                  /\ q.sleeps = e.attempt - 1

C11_Witness ==
    \E r \in Requests :
        /\ req[r].last_err = APIError({"not supported"}, 2)
        /\ req[r].raised = req[r].last_err
        /\ req[r].infer_calls = 2
        /\ req[r].sleeps = 1

(* C12: aiseller without a trailing argument edits the message to its      *)
(* usage text and never enters ai_process_handler: no classification, no   *)
(* download, no upload, no inference call, whatever the referenced message *)
(* carries.                                                                *)
C12_AisellerNeedsArgument ==
    \A r \in Requests :
        LET q == req[r]
        IN  (q.cmd = "aiseller" /\ q.arg_len = 0 /\ q.pc # "start") =>
              /\ Done(q)
              /\ q.msg = Usage("aiseller")
              /\ q.edits = 1
              /\ q.classified = 0 /\ q.downloads = 0
              /\ q.uploads = 0 /\ q.infer_calls = 0
              /\ q.file_path = NoPath

C12_Witness ==
    \E r \in Requests :
        /\ req[r].cmd = "aiseller" /\ req[r].arg_len = 0
        /\ req[r].reply.attrs = {"photo"}
        /\ req[r].msg = Usage("aiseller")
        /\ Done(req[r])

(* C13: when the downloaded photo does not open or does not pass the       *)
(* integrity check, materialisation fails: the request ends with a failure *)
(* text on the command message and without any inference call.            *)
C13_CorruptImageFailsFast ==
    \A r \in Requests :
        LET q == req[r]
        IN  q.image = "corrupt" =>
              /\ Done(q)
              /\ q.raised = ImageError
              /\ q.msg = ErrorText(ImageError)
              /\ q.input_data = <<>>
              /\ q.infer_calls = 0 /\ q.uploads = 0

C13_Witness ==
    \E r \in Requests :
        /\ req[r].cmd = "aicook"
        /\ req[r].reply.attrs = {"photo"}
        /\ req[r].image = "corrupt"
        /\ req[r].msg.kind = "error"
        /\ req[r].infer_calls = 0

\* _valid_file has returned for the request
Classified(q) == q.pc = "classified"

(* C14: with expected category "audio" or "video" the classifier accepts   *)
(* the referenced message iff it carries audio, voice, video or            *)
(* video_note; its verdict on a message is the same for "audio" as for     *)
(* "video"; a message with only a photo or only a document is rejected.    *)
C14_AudioVideoBroadCheck ==
    /\ \A r \in Requests :
          LET q == req[r]
          IN  (Classified(q) /\ q.file_type \in {"audio", "video"}) =>
                /\ (q.verdict = "valid") <=>
                      (q.reply.attrs \cap
                          {"audio", "voice", "video", "video_note"} # {})
                /\ q.reply.attrs \in {{"photo"}, {"document"}}
                      => q.verdict = "invalid"
    /\ \A r \in Requests : \A s \in Requests :
          (/\ Classified(req[r]) /\ Classified(req[s])
           /\ req[r].file_type = "audio" /\ req[s].file_type = "video"
           /\ req[r].reply = req[s].reply)
              => req[r].verdict = req[s].verdict

C14_Witness ==
    \E r \in Requests : \E s \in Requests :
        /\ Classified(req[r]) /\ Classified(req[s])
        /\ req[r].file_type = "audio" /\ req[s].file_type = "video"
        /\ req[r].reply.attrs = {"video_note"}
        /\ req[s].reply.attrs = {"video_note"}
        /\ req[r].verdict = "valid" /\ req[s].verdict = "valid"

(* C15: _upload_file hands a handle to prepare_input_data only when the    *)
(* file's state is the ready one; while the state is PROCESSING it sleeps  *)
(* 5 seconds before each re-fetch and goes on polling; on FAILED it raises *)
(* the "<file type> failed to process" error (the file type capitalized by *)
(* str.capitalize: Video, Audio, Pdf, Document), which the command message *)
(* shows, with no inference call and no second upload.                     *)
C15_UploadAndPoll ==
    \A r \in Requests :
        LET q == req[r]
        IN  /\ q.uploads <= 1
            /\ q.pc \in {"poll_sleep", "get_file"} =>
                  /\ q.upload_state = "PROCESSING"
                  /\ q.polls >= 1
                  /\ q.infer_calls = 0
            /\ q.refetches <= q.polls
            /\ q.pc = "get_file" => q.refetches = q.polls
            /\ (q.uploads = 1 /\ (q.input_data # <<>> \/ q.infer_calls > 0)) =>
                  q.upload_state = "ACTIVE"
            /\ q.upload_state = "FAILED" =>
                  /\ Done(q)
                  /\ q.route = "except ValueError"
                  /\ q.msg.kind = "text"
                  /\ q.msg.what =
                        (CASE q.upload_as = "video" -> "Video failed to process"
                           [] q.upload_as = "audio" -> "Audio failed to process"
                           [] q.upload_as = "PDF" -> "Pdf failed to process"
                           [] OTHER -> "Document failed to process")
                  /\ q.infer_calls = 0
                  /\ q.uploads = 1

C15_Witness ==
    \E r \in Requests :
        /\ req[r].upload_state = "FAILED"
        /\ req[r].refetches = 2
        /\ req[r].msg = Text("Video failed to process")
        /\ req[r].infer_calls = 0

\* the file type the dispatch table of prepare_input_data uploads the
\* attachment as ("None": no upload), read in its order of priority
TableUploadAs(q) ==
    IF "photo" \in q.reply.attrs THEN "None"
    ELSE IF "video" \in q.reply.attrs \/ "video_note" \in q.reply.attrs THEN "video"
    ELSE IF "audio" \in q.reply.attrs \/ "voice" \in q.reply.attrs THEN "audio"
    ELSE IF "document" \in q.reply.attrs /\ q.is_pdf THEN "PDF"
    ELSE IF "document" \in q.reply.attrs THEN "document"
    ELSE "None"

\* the list the table yields for each file type
TableData(as) ==
    CASE as = "None" -> <<"prompt", "image">>
      [] as = "video" -> <<"prompt", "handle">>
      [] as = "audio" -> <<"handle", "prompt">>
      [] as = "PDF" -> <<"prompt", "handle">>
      [] OTHER -> <<"handle", "prompt">>

(* C16: prepare_input_data applies exactly one strategy, the first that    *)
(* matches in the order photo, video/video_note, audio/voice, .pdf         *)
(* document, other document: a photo gives [prompt, image] and no upload,  *)
(* the others one upload as "video", "audio", "PDF" or "document" and      *)
(* [prompt, handle], [handle, prompt], [prompt, handle], [handle, prompt]; *)
(* no request uploads more than once.                                      *)
C16_DispatchTable ==
    \A r \in Requests :
        LET q == req[r]
        IN  /\ q.uploads <= 1
            /\ (q.pc # "off" /\ Downloaded(q)) =>
                  /\ q.upload_as = TableUploadAs(q)
                  /\ q.uploads = (IF TableUploadAs(q) = "None" THEN 0 ELSE 1)
                  /\ q.input_data \in {<<>>, TableData(TableUploadAs(q))}
                  /\ q.infer_calls > 0 =>
                        q.input_data = TableData(TableUploadAs(q))
                  /\ "photo" \in q.reply.attrs =>
                        (q.image = "intact" <=> q.input_data # <<>>)

C16_Witness ==
    \E r \in Requests :
        /\ req[r].reply.attrs = {"audio", "document"}
        /\ req[r].is_pdf
        /\ req[r].upload_as = "audio"
        /\ req[r].uploads = 1
        /\ req[r].input_data = <<"handle", "prompt">>
        /\ req[r].pc = "generate"

(* C17: the temp file of a request is its own: while a request is inside   *)
(* the try statement, the file it downloaded stays on disk until its own   *)
(* finally block; the cleanup of another request never removes it.         *)
C17_TempFileIsExclusive ==
    \A r \in Requests :
        InTry(req[r]) => req[r].file_path \in files

(* C18: whenever _valid_file accepted the referenced message, for any of   *)
(* the expected categories a command passes, prepare_input_data matches    *)
(* one of its dispatch rules, for a PDF path and for any other path; the   *)
(* "Unsupported file type" error is raised in no execution.                *)
C18_AcceptedIsDispatched ==
    \A r \in Requests :
        LET q == req[r]
        IN  /\ q.raised # ValueError("Unsupported file type")
            /\ q.msg # Text("Unsupported file type")
            /\ Accepted(q) =>
                  \A pdf \in BOOLEAN : Strategy(q.reply, pdf).rule # "unsupported"

C18_Witness ==
    \E r \in Requests :
        /\ req[r].cmd = "process"
        /\ req[r].reply.attrs = {"video_note"}
        /\ Accepted(req[r])
        /\ req[r].upload_as = "video"
        /\ req[r].pc = "generate"

(* C19: in the retry loop the number of 2-second sleeps equals the number  *)
(* of transient failures seen: every transient failure, the one of the     *)
(* third attempt included, is followed by a sleep before the handler goes  *)
(* on, so a request with three transient failures in a row has slept three *)
(* times when its failure is reported.                                     *)
C19_SleepAfterEveryTransient ==
    \A r \in Requests :
        LET q == req[r]
        IN  /\ q.sleeps = q.transients
            /\ q.pc = "retry_sleep" =>
                  /\ q.transients = q.infer_calls
                  /\ IsTransient(q.last_err)
            /\ (Done(q) /\ q.transients = MaxAttempts) =>
                  /\ q.sleeps = MaxAttempts
                  /\ q.infer_calls = MaxAttempts
                  /\ q.raised # NoErr
                  /\ q.msg = ErrorText(q.raised)

C19_Witness ==
    \E r \in Requests :
        /\ Done(req[r])
        /\ req[r].transients = MaxAttempts
        /\ req[r].sleeps = MaxAttempts
        /\ req[r].msg = ErrorText(req[r].raised)

====
